---- MODULE Spec2Model ----
(***************************************************************************)
(* Model of src/wasm32_bindgen.rs: the wasm-bindgen backend of getrandom.  *)
(*                                                                         *)
(* Every execution context (thread) owns a thread-local cache RNG_SOURCE   *)
(* and lives in a host (its JavaScript global scope).  getrandom_inner     *)
(* resolves the entropy provider on first use (getrandom_init), caches it  *)
(* and fills the destination: one randomFillSync call on Node, one         *)
(* getRandomValues call per 65536-byte chunk in a browser.                 *)
(*                                                                         *)
(* A destination buffer is kept as a sequence of runs instead of one value *)
(* per byte: a run [lo, hi, call, src] says that bytes lo..hi-1 hold bytes *)
(* src.. of the result of the call-th provider call of the current         *)
(* getrandom_inner call (call = 0: the bytes the caller passed in).        *)
(* The foreign calls a getrandom_inner call makes are recorded, in order,  *)
(* in log: it is what a test double of the host would observe.             *)
(***************************************************************************)
EXTENDS Integers, Sequences, FiniteSets, TLC

VARIABLES
    host,         \* host[c]: the JavaScript environment of context c
    RNG_SOURCE,   \* RNG_SOURCE[c]: the thread-local Option<RngSource>
    pc,           \* pc[c]: "idle", "fill" (at the match of line 42), "ret"
    entry,        \* entry[c]: RNG_SOURCE[c] as the current call found it
    destLen,      \* destLen[c]: dest.len() of the current call
    dest,         \* dest[c]: contents of the current call's dest, as runs
    off,          \* off[c]: offset of the next chunk of dest.chunks_mut
    result,       \* result[c]: what the current call returns
    log,          \* log[c]: foreign calls made by the current call
    initRuns,     \* initRuns[c]: getrandom_init calls made so far
    okInits,      \* okInits[c]: getrandom_init calls that returned Ok
    calls,        \* getrandom_inner calls begun so far, all contexts
    hostChanges   \* host mutations so far, all contexts

vars == <<host, RNG_SOURCE, pc, entry, destLen, dest, off, result, log,
          initRuns, okInits, calls, hostChanges>>

----------------------------------------------------------------------------
(* Bounds of the model *)

MaxChunks == 1
MaxCalls == 2
MaxHostChanges == 1

(* Program constants *)

CHUNK == 65536

Contexts == {1, 2}

(* Destination lengths: none, one byte, MaxChunks whole chunks, and one    *)
(* byte more than that.                                                    *)
Lens == {0, 1, MaxChunks * CHUNK, MaxChunks * CHUNK + 1}

----------------------------------------------------------------------------
(* The host *)

(* A JsValue read from a property of `self`: undefined, an object without  *)
(* a getRandomValues method ("stub"), or one with it ("full").             *)
JsProp == {"undefined", "stub", "full"}

NoSelf == [self |-> FALSE, crypto |-> "undefined", msCrypto |-> "undefined"]

Hosts == {NoSelf} \cup
         {[self |-> TRUE, crypto |-> a, msCrypto |-> b] : a, b \in JsProp}

is_undefined(v) == v = "undefined"

(* Global::get_self(): Ok when the global `self` exists. *)
get_self(h) == h.self

(* Getter of getRandomValues on the object held by property p of self. *)
get_random_values_fn(h, p) == IF h[p] = "full" THEN "function" ELSE "undefined"

----------------------------------------------------------------------------
(* RngSource and Error *)

None == [kind |-> "None", obj |-> "none"]
Node == [kind |-> "Node", obj |-> "require(crypto)"]
Browser(p) == [kind |-> "Browser", obj |-> p]

RngSource == {Node, Browser("crypto"), Browser("msCrypto")}

BINDGEN_CRYPTO_UNDEF == "BINDGEN_CRYPTO_UNDEF"
BINDGEN_GRV_UNDEF == "BINDGEN_GRV_UNDEF"
Ok == "Ok"

(* One foreign call. *)
Ev(op, obj, o, n) == [op |-> op, obj |-> obj, off |-> o, len |-> n]

----------------------------------------------------------------------------
(* getrandom_init *)

(* Mutants of SelectCrypto: the legacy name tried first; no legacy arm. *)
SelectCrypto_LegacyFirst(h) ==
    IF ~is_undefined(h.msCrypto) THEN "msCrypto"
    ELSE IF ~is_undefined(h.crypto) THEN "crypto"
    ELSE "none"

SelectCrypto_NoLegacy(h) ==
    IF ~is_undefined(h.crypto) THEN "crypto" ELSE "none"

(* The match of lines 69-73: the property of `self` whose object is taken, *)
(* "none" when both are undefined.                                         *)
SelectCrypto(h) ==
    IF ~is_undefined(h.crypto) THEN "crypto"
    ELSE IF ~is_undefined(h.msCrypto) THEN "msCrypto"
    ELSE "none"

(* The foreign reads of the scrutinee of line 69: both getters are called, *)
(* left to right, before any arm is tried.                                 *)
PropReads == <<Ev("crypto", "self", 0, 0), Ev("msCrypto", "self", 0, 0)>>

(* Mutant of getrandom_init: the test of lines 75-78 left out. *)
getrandom_init_NoProbe(h) ==
    IF get_self(h)
    THEN LET p == SelectCrypto(h)
             reads == <<Ev("get_self", "Global", 0, 0)>> \o PropReads
         IN  IF p = "none"
             THEN [res |-> BINDGEN_CRYPTO_UNDEF, source |-> None, log |-> reads]
             ELSE [res |-> Ok, source |-> Browser(p), log |-> reads]
    ELSE [res |-> Ok, source |-> Node,
          log |-> <<Ev("get_self", "Global", 0, 0),
                    Ev("require", "crypto", 0, 0)>>]

(* Mutant of getrandom_init: with neither property defined, control falls  *)
(* through to the Node arm instead of returning BINDGEN_CRYPTO_UNDEF.       *)
getrandom_init_Fallthrough(h) ==
    IF get_self(h) /\ SelectCrypto(h) # "none"
    THEN LET p == SelectCrypto(h)
             probed == <<Ev("get_self", "Global", 0, 0)>> \o PropReads
                       \o <<Ev("getRandomValues_fn", p, 0, 0)>>
         IN  IF is_undefined(get_random_values_fn(h, p))
             THEN [res |-> BINDGEN_GRV_UNDEF, source |-> None, log |-> probed]
             ELSE [res |-> Ok, source |-> Browser(p), log |-> probed]
    ELSE [res |-> Ok, source |-> Node,
          log |-> <<Ev("get_self", "Global", 0, 0),
                    Ev("require", "crypto", 0, 0)>>]

(* Mutant of getrandom_init: a failing get_self is reported as an error   *)
(* instead of taken for "not a browser".                                   *)
getrandom_init_SelfRequired(h) ==
    IF get_self(h)
    THEN LET p == SelectCrypto(h)
             reads == <<Ev("get_self", "Global", 0, 0)>> \o PropReads
         IN  IF p = "none"
             THEN [res |-> BINDGEN_CRYPTO_UNDEF, source |-> None, log |-> reads]
             ELSE LET probed == reads \o <<Ev("getRandomValues_fn", p, 0, 0)>>
                  IN  IF is_undefined(get_random_values_fn(h, p))
                      THEN [res |-> BINDGEN_GRV_UNDEF, source |-> None,
                            log |-> probed]
                      ELSE [res |-> Ok, source |-> Browser(p), log |-> probed]
    ELSE [res |-> BINDGEN_CRYPTO_UNDEF, source |-> None,
          log |-> <<Ev("get_self", "Global", 0, 0)>>]

(* Mutant of getrandom_init: the method is tested by calling it on an      *)
(* empty array instead of reading it.                                      *)
getrandom_init_TrialCall(h) ==
    IF get_self(h)
    THEN LET p == SelectCrypto(h)
             reads == <<Ev("get_self", "Global", 0, 0)>> \o PropReads
         IN  IF p = "none"
             THEN [res |-> BINDGEN_CRYPTO_UNDEF, source |-> None, log |-> reads]
             ELSE LET probed == reads \o <<Ev("get_random_values", p, 0, 0)>>
                  IN  IF is_undefined(get_random_values_fn(h, p))
                      THEN [res |-> BINDGEN_GRV_UNDEF, source |-> None,
                            log |-> probed]
                      ELSE [res |-> Ok, source |-> Browser(p), log |-> probed]
    ELSE [res |-> Ok, source |-> Node,
          log |-> <<Ev("get_self", "Global", 0, 0),
                    Ev("require", "crypto", 0, 0)>>]

(* Mutant of getrandom_init: when the selected object has no               *)
(* getRandomValues, the other property is tried before giving up.          *)
getrandom_init_LegacyRetry(h) ==
    IF get_self(h)
    THEN LET p == SelectCrypto(h)
             reads == <<Ev("get_self", "Global", 0, 0)>> \o PropReads
         IN  IF p = "none"
             THEN [res |-> BINDGEN_CRYPTO_UNDEF, source |-> None, log |-> reads]
             ELSE LET probed == reads \o <<Ev("getRandomValues_fn", p, 0, 0)>>
                  IN  IF ~is_undefined(get_random_values_fn(h, p))
                      THEN [res |-> Ok, source |-> Browser(p), log |-> probed]
                      ELSE IF p = "crypto"
                              /\ ~is_undefined(get_random_values_fn(h, "msCrypto"))
                      THEN [res |-> Ok, source |-> Browser("msCrypto"),
                            log |-> probed
                                    \o <<Ev("getRandomValues_fn", "msCrypto", 0, 0)>>]
                      ELSE [res |-> BINDGEN_GRV_UNDEF, source |-> None,
                            log |-> probed]
    ELSE [res |-> Ok, source |-> Node,
          log |-> <<Ev("get_self", "Global", 0, 0),
                    Ev("require", "crypto", 0, 0)>>]

(* getrandom_init(): its result, the RngSource of an Ok result, and the    *)
(* foreign calls it made.                                                  *)
getrandom_init(h) ==
    IF get_self(h)
    THEN LET p == SelectCrypto(h)
             reads == <<Ev("get_self", "Global", 0, 0)>> \o PropReads
         IN  IF p = "none"
             THEN [res |-> BINDGEN_CRYPTO_UNDEF, source |-> None, log |-> reads]
             ELSE LET probed == reads \o <<Ev("getRandomValues_fn", p, 0, 0)>>
                  IN  IF is_undefined(get_random_values_fn(h, p))
                      THEN [res |-> BINDGEN_GRV_UNDEF, source |-> None,
                            log |-> probed]
                      ELSE [res |-> Ok, source |-> Browser(p), log |-> probed]
    ELSE [res |-> Ok, source |-> Node,
          log |-> <<Ev("get_self", "Global", 0, 0),
                    Ev("require", "crypto", 0, 0)>>]

----------------------------------------------------------------------------
(* The destination buffer *)

Min(a, b) == IF a < b THEN a ELSE b
Max(a, b) == IF a > b THEN a ELSE b

Run(lo, hi, call, src) == [lo |-> lo, hi |-> hi, call |-> call, src |-> src]

(* The buffer as the caller passes it: L bytes of the caller's. *)
CallerBytes(L) == IF L = 0 THEN <<>> ELSE <<Run(0, L, 0, 0)>>

(* The runs of d below lo, cut at lo; the runs of d above hi, cut at hi. *)
Below(d, lo) ==
    LET s == SelectSeq(d, LAMBDA r : r.lo < lo)
    IN  [i \in 1..Len(s) |-> [s[i] EXCEPT !.hi = Min(@, lo)]]

Above(d, hi) ==
    LET s == SelectSeq(d, LAMBDA r : r.hi > hi)
    IN  [i \in 1..Len(s) |->
            [s[i] EXCEPT !.lo = Max(@, hi),
                         !.src = @ + (Max(s[i].lo, hi) - s[i].lo)]]

(* d after bytes 0..hi-lo-1 of the call-th provider result are stored at   *)
(* lo..hi-1.                                                               *)
Write(d, lo, hi, call) ==
    IF lo >= hi THEN d
    ELSE Below(d, lo) \o <<Run(lo, hi, call, 0)>> \o Above(d, hi)

(* The provider calls (fills) among the foreign calls of a log. *)
IsFill(e) == e.op \in {"random_fill_sync", "get_random_values"}
Fills(l) == SelectSeq(l, IsFill)

(* Mutants of chunk_len: the buffer not chunked; chunks one byte short. *)
chunk_len_Uncapped(L, o) == L - o
chunk_len_Short(L, o) == Min(CHUNK - 1, L - o)

(* Mutant of chunk_len: the loop makes no progress. *)
chunk_len_Zero(L, o) == 0

(* Length of the chunk dest.chunks_mut(65536) yields at offset o. *)
chunk_len(L, o) == Min(CHUNK, L - o)

(* The body of the loop of lines 51-55 for the chunk at offset o, handle n:*)
(* the foreign calls made, and the buffer after arr.copy_to(chunk).        *)
ChunkLog(n, L, o) ==
    <<Ev("new_with_length", "Uint8Array", 0, chunk_len(L, o)),
      Ev("get_random_values", n.obj, 0, chunk_len(L, o)),
      Ev("copy_to", "Uint8Array", o, chunk_len(L, o))>>

(* Mutant of ChunkDest: the chunks stored from the end of dest backwards. *)
ChunkDest_Mirrored(d, l, L, o) ==
    Write(d, L - o - chunk_len(L, o), L - o, Len(Fills(l)) + 1)

(* Mutant of ChunkDest: every chunk copied to the start of dest. *)
ChunkDest_AtStart(d, l, L, o) == Write(d, 0, chunk_len(L, o), Len(Fills(l)) + 1)

ChunkDest(d, l, L, o) == Write(d, o, o + chunk_len(L, o), Len(Fills(l)) + 1)

(* Mutant of NodeLog: an empty dest is not passed to the provider. *)
NodeLog_SkipEmpty(n, L) ==
    IF L = 0 THEN <<>> ELSE <<Ev("random_fill_sync", n.obj, 0, L)>>

(* Mutant of NodeLog: the Node provider given at most one chunk. *)
NodeLog_Capped(n, L) == <<Ev("random_fill_sync", n.obj, 0, Min(CHUNK, L))>>

(* n.random_fill_sync(dest) of line 43. *)
NodeLog(n, L) == <<Ev("random_fill_sync", n.obj, 0, L)>>
NodeDest(d, l, L) == Write(d, 0, L, Len(Fills(l)) + 1)

----------------------------------------------------------------------------
(* getrandom_inner *)

(* Mutant of Slot: one static cache for all threads. *)
Slot_Shared(c) == 1

(* Lines 29-31, 36: thread_local! gives every thread its own RNG_SOURCE;   *)
(* RNG_SOURCE.with hands the closure the one of the calling thread.        *)
Slot(c) == c

(* Mutant of is_none: the cache is never consulted. *)
is_none_Always(s) == TRUE

(* Line 38: source.is_none(). *)
is_none(s) == s.kind = "None"

(* Mutant of Store: the cache is set before the result is looked at. *)
Store_Eager(s, r) == IF r.res = Ok THEN r.source ELSE Browser("crypto")

(* Line 39: the cache after getrandom_init returned r; `?` returns before  *)
(* the assignment when r is an error.                                      *)
Store(s, r) == IF r.res = Ok THEN r.source ELSE s

Init ==
    /\ host \in [Contexts -> Hosts]
    /\ RNG_SOURCE = [c \in Contexts |-> None]
    /\ pc = [c \in Contexts |-> "idle"]
    /\ entry = [c \in Contexts |-> None]
    /\ destLen = [c \in Contexts |-> 0]
    /\ dest = [c \in Contexts |-> <<>>]
    /\ off = [c \in Contexts |-> 0]
    /\ result = [c \in Contexts |-> "none"]
    /\ log = [c \in Contexts |-> <<>>]
    /\ initRuns = [c \in Contexts |-> 0]
    /\ okInits = [c \in Contexts |-> 0]
    /\ calls = 0
    /\ hostChanges = 0

(* Common to the two ways a call begins. *)
Enter(c, L) ==
    /\ pc[c] = "idle"
    /\ calls < MaxCalls
    /\ calls' = calls + 1
    /\ entry' = [entry EXCEPT ![c] = RNG_SOURCE[Slot(c)]]
    /\ destLen' = [destLen EXCEPT ![c] = L]
    /\ dest' = [dest EXCEPT ![c] = CallerBytes(L)]
    /\ off' = [off EXCEPT ![c] = 0]
    /\ UNCHANGED <<host, hostChanges>>

(* Lines 36-40 with the cache empty: getrandom_init runs; an error returns *)
(* from the call, Ok is stored in the cache.                               *)
CallInit(c, L) ==
    /\ is_none(RNG_SOURCE[Slot(c)])
    /\ Enter(c, L)
    /\ LET r == getrandom_init(host[c])
       IN  /\ RNG_SOURCE' = [RNG_SOURCE EXCEPT ![Slot(c)] = Store(@, r)]
           /\ log' = [log EXCEPT ![c] = r.log]
           /\ initRuns' = [initRuns EXCEPT ![c] = @ + 1]
           /\ okInits' = [okInits EXCEPT ![c] = IF r.res = Ok THEN @ + 1 ELSE @]
           /\ result' = [result EXCEPT ![c] = IF r.res = Ok THEN "none" ELSE r.res]
           /\ pc' = [pc EXCEPT ![c] = IF r.res = Ok THEN "fill" ELSE "ret"]

(* Lines 36-40 with the cache holding a source: nothing is probed. *)
CallCached(c, L) ==
    /\ ~is_none(RNG_SOURCE[Slot(c)])
    /\ Enter(c, L)
    /\ log' = [log EXCEPT ![c] = <<>>]
    /\ result' = [result EXCEPT ![c] = "none"]
    /\ pc' = [pc EXCEPT ![c] = "fill"]
    /\ UNCHANGED <<RNG_SOURCE, initRuns, okInits>>

(* Line 43: the Node arm. *)
FillNode(c) ==
    /\ pc[c] = "fill"
    /\ RNG_SOURCE[Slot(c)].kind = "Node"
    /\ log' = [log EXCEPT ![c] = @ \o NodeLog(RNG_SOURCE[Slot(c)], destLen[c])]
    /\ dest' = [dest EXCEPT ![c] = NodeDest(@, log[c], destLen[c])]
    /\ result' = [result EXCEPT ![c] = Ok]
    /\ pc' = [pc EXCEPT ![c] = "ret"]
    /\ UNCHANGED <<host, RNG_SOURCE, entry, destLen, off, initRuns, okInits,
                   calls, hostChanges>>

(* Lines 51-55: one iteration of the loop over dest.chunks_mut(65536). *)
FillChunk(c) ==
    /\ pc[c] = "fill"
    /\ RNG_SOURCE[Slot(c)].kind = "Browser"
    /\ off[c] < destLen[c]
    /\ log' = [log EXCEPT ![c] = @ \o ChunkLog(RNG_SOURCE[Slot(c)], destLen[c], off[c])]
    /\ dest' = [dest EXCEPT ![c] = ChunkDest(@, log[c], destLen[c], off[c])]
    /\ off' = [off EXCEPT ![c] = @ + chunk_len(destLen[c], @)]
    /\ UNCHANGED <<host, RNG_SOURCE, pc, entry, destLen, result, initRuns,
                   okInits, calls, hostChanges>>

(* Lines 51, 57-58: the chunks are exhausted, the call returns Ok(()). *)
FillDone(c) ==
    /\ pc[c] = "fill"
    /\ RNG_SOURCE[Slot(c)].kind = "Browser"
    /\ off[c] >= destLen[c]
    /\ result' = [result EXCEPT ![c] = Ok]
    /\ pc' = [pc EXCEPT ![c] = "ret"]
    /\ UNCHANGED <<host, RNG_SOURCE, entry, destLen, dest, off, log, initRuns,
                   okInits, calls, hostChanges>>

(* The call has returned: the caller takes the result and its buffer. *)
Return(c) ==
    /\ pc[c] = "ret"
    /\ pc' = [pc EXCEPT ![c] = "idle"]
    /\ entry' = [entry EXCEPT ![c] = None]
    /\ destLen' = [destLen EXCEPT ![c] = 0]
    /\ dest' = [dest EXCEPT ![c] = <<>>]
    /\ off' = [off EXCEPT ![c] = 0]
    /\ result' = [result EXCEPT ![c] = "none"]
    /\ log' = [log EXCEPT ![c] = <<>>]
    /\ UNCHANGED <<host, RNG_SOURCE, initRuns, okInits, calls, hostChanges>>

(* The environment of a context changes between two calls (a script that   *)
(* defines or removes self.crypto, ...).  getrandom_inner is synchronous,  *)
(* so nothing changes the context's host while a call of it is running.    *)
HostChange(c, h) ==
    /\ pc[c] = "idle"
    /\ hostChanges < MaxHostChanges
    /\ h # host[c]
    /\ host' = [host EXCEPT ![c] = h]
    /\ hostChanges' = hostChanges + 1
    /\ UNCHANGED <<RNG_SOURCE, pc, entry, destLen, dest, off, result, log,
                   initRuns, okInits, calls>>

Next ==
    \/ \E c \in Contexts, L \in Lens : CallInit(c, L)
    \/ \E c \in Contexts, L \in Lens : CallCached(c, L)
    \/ \E c \in Contexts : FillNode(c)
    \/ \E c \in Contexts : FillChunk(c)
    \/ \E c \in Contexts : FillDone(c)
    \/ \E c \in Contexts : Return(c)
    \/ \E c \in Contexts, h \in Hosts : HostChange(c, h)

Spec == Init /\ [][Next]_vars

(* The next step of the running call of context c. *)
Step(c) == FillNode(c) \/ FillChunk(c) \/ FillDone(c)

(* A call runs to its end: it is synchronous code whose foreign calls     *)
(* return, so a step of it that can be taken is taken.  Nothing makes the  *)
(* caller call again, or the host change.                                  *)
FairSpec == Spec /\ \A c \in Contexts : WF_vars(Step(c))

----------------------------------------------------------------------------
(* Vocabulary of the properties *)

Errors == {BINDGEN_CRYPTO_UNDEF, BINDGEN_GRV_UNDEF}

(* The call of context c has returned / has returned Ok. *)
Returned(c) == pc[c] = "ret"
ReturnedOk(c) == pc[c] = "ret" /\ result[c] = Ok

(* The current call of c found the cache empty, so it ran getrandom_init   *)
(* on host[c], which no step changes before the call has returned.         *)
Probing(c) == pc[c] # "idle" /\ entry[c] = None

(* The foreign calls of a log that store into dest, in order. *)
Stores(l) == SelectSeq(l, LAMBDA e : e.op \in {"random_fill_sync", "copy_to"})

(* The stores of l that write byte i. *)
Writers(l, i) ==
    {k \in DOMAIN Stores(l) :
        Stores(l)[k].off <= i /\ i < Stores(l)[k].off + Stores(l)[k].len}

(* One byte of every maximal range of 0..L-1 that no store of l cuts: the  *)
(* set of writers is the same for all bytes of such a range, so what holds *)
(* of these bytes holds of every byte of the buffer.                       *)
Samples(l, L) ==
    {i \in {0} \cup UNION {{Stores(l)[k].off, Stores(l)[k].off + Stores(l)[k].len} :
                            k \in DOMAIN Stores(l)} : i < L}

(* The runs of d tile 0..L-1 in order, without gap. *)
Tiles(d, L) ==
    /\ (L = 0) = (d = <<>>)
    /\ L > 0 => d[1].lo = 0 /\ d[Len(d)].hi = L
    /\ \A k \in DOMAIN d : d[k].lo < d[k].hi
    /\ \A k \in 1..(Len(d) - 1) : d[k].hi = d[k + 1].lo

HasEvent(l, op, obj) == \E k \in DOMAIN l : l[k].op = op /\ l[k].obj = obj
HasOp(l, op) == \E k \in DOMAIN l : l[k].op = op

(* The property of `self` that lines 69-73 should take in host h. *)
Standard(h) == h.self /\ h.crypto # "undefined"
Legacy(h) == h.self /\ h.crypto = "undefined" /\ h.msCrypto # "undefined"
Neither(h) == h.self /\ h.crypto = "undefined" /\ h.msCrypto = "undefined"

(* A host in which resolution should succeed. *)
Functional(h) ==
    \/ ~h.self
    \/ h.crypto = "full"
    \/ h.crypto = "undefined" /\ h.msCrypto = "full"

----------------------------------------------------------------------------
(* C1: when getrandom_inner returns Ok, for every length and both provider *)
(* variants, every byte of dest holds provider output and was written by   *)
(* exactly one provider call.                                              *)
C1_FilledOnce ==
    \A c \in Contexts :
        ReturnedOk(c) =>
            /\ Tiles(dest[c], destLen[c])
            /\ \A k \in DOMAIN dest[c] :
                   dest[c][k].call \in 1..Len(Fills(log[c]))
            /\ \A i \in Samples(log[c], destLen[c]) :
                   Cardinality(Writers(log[c], i)) = 1
            /\ \A k \in DOMAIN Stores(log[c]) :
                   Stores(log[c])[k].off + Stores(log[c])[k].len <= destLen[c]

(* Both variants have returned Ok, the Browser one after several chunks. *)
C1_Witness ==
    \E c, b \in Contexts :
        /\ ReturnedOk(c) /\ RNG_SOURCE[c].kind = "Node" /\ destLen[c] > 65536
        /\ ReturnedOk(b) /\ RNG_SOURCE[b].kind = "Browser" /\ destLen[b] > 65536

(* C2: once a context's cache holds a provider, no later call of that      *)
(* context runs getrandom_init, and a context resolves successfully at     *)
(* most once.                                                              *)
C2_ResolveOnce ==
    [][\A c \in Contexts :
          /\ RNG_SOURCE[c] # None => initRuns'[c] = initRuns[c]
          /\ okInits'[c] <= 1]_vars

(* A second call of a context is served from the cache. *)
C2_Witness ==
    \E c \in Contexts :
        /\ pc[c] = "ret" /\ result[c] = Ok
        /\ entry[c] # None /\ initRuns[c] = 1 /\ okInits[c] = 1

(* C3: a call that fails in resolution leaves the cache empty; the next    *)
(* call of the context runs the full probe again, and succeeds and caches  *)
(* the provider when the host has become functional.                       *)
C3_FailureNotCached ==
    /\ [](\A c \in Contexts :
            /\ (Returned(c) /\ result[c] \in Errors) => RNG_SOURCE[c] = None
            /\ (Returned(c) /\ entry[c] = None /\ initRuns[c] >= 2
                    /\ Functional(host[c])) =>
                   result[c] = Ok /\ RNG_SOURCE[c] \in RngSource)
    /\ [][\A c \in Contexts :
            (pc[c] = "idle" /\ pc'[c] # "idle" /\ initRuns[c] >= 1
                 /\ okInits[c] = 0) =>
                /\ RNG_SOURCE[c] = None
                /\ initRuns'[c] = initRuns[c] + 1
                /\ HasOp(log'[c], "get_self")
                /\ host[c].self =>
                       HasOp(log'[c], "crypto") /\ HasOp(log'[c], "msCrypto")
                /\ ~host[c].self => HasOp(log'[c], "require")
                /\ Functional(host[c]) =>
                       RNG_SOURCE'[c] \in RngSource /\ pc'[c] = "fill"]_vars

(* After a failed call and a change of the host, a call has succeeded. *)
C3_Witness ==
    \E c \in Contexts :
        /\ ReturnedOk(c) /\ entry[c] = None
        /\ initRuns[c] = 2 /\ okInits[c] = 1
        /\ RNG_SOURCE[c] \in RngSource

(* C4: every getRandomValues request is for 1 to 65536 bytes. *)
C4_RequestBounded ==
    \A c \in Contexts : \A k \in DOMAIN log[c] :
        log[c][k].op \in {"get_random_values", "new_with_length"} =>
            1 <= log[c][k].len /\ log[c][k].len <= 65536

(* A buffer longer than the ceiling has been served, by a full request. *)
C4_Witness ==
    \E c \in Contexts :
        /\ destLen[c] > 65536
        /\ \E k \in DOMAIN log[c] :
               log[c][k].op = "get_random_values" /\ log[c][k].len = 65536
        /\ \E k \in DOMAIN log[c] :
               log[c][k].op = "get_random_values" /\ log[c][k].len = 1

(* C5: a Browser request of length L makes ceil(L / 65536) provider calls, *)
(* the i-th (from 0) for bytes i*65536 .. min((i+1)*65536, L) - 1: one     *)
(* call for 65536 bytes, two for 65537, for [0,65536) and [65536,65537).    *)
C5_ChunkBoundaries ==
    \A c \in Contexts :
        (ReturnedOk(c) /\ RNG_SOURCE[c].kind = "Browser") =>
            LET L == destLen[c]
                N == (L + 65535) \div 65536
                F == Fills(log[c])
                W == Stores(log[c])
            IN  /\ Len(F) = N /\ Len(W) = N /\ Len(dest[c]) = N
                /\ \A i \in 0..(N - 1) :
                       /\ F[i + 1].op = "get_random_values"
                       /\ W[i + 1].op = "copy_to"
                       /\ W[i + 1].off = i * 65536
                       /\ W[i + 1].off + W[i + 1].len = Min((i + 1) * 65536, L)
                       /\ F[i + 1].len = W[i + 1].len
                       /\ dest[c][i + 1] =
                              Run(i * 65536, Min((i + 1) * 65536, L), i + 1, 0)
                /\ L = 65536 => Len(F) = 1
                /\ L = 65537 =>
                       /\ Len(F) = 2
                       /\ W[1].off = 0 /\ W[1].len = 65536
                       /\ W[2].off = 65536 /\ W[2].len = 1

(* A Browser request of 65537 bytes has returned. *)
C5_Witness ==
    \E c \in Contexts :
        ReturnedOk(c) /\ RNG_SOURCE[c].kind = "Browser" /\ destLen[c] = 65537

(* C6, as claimed: a request of length 0 with a resolved provider returns  *)
(* Ok and makes no provider call, whatever the variant.                    *)
C6_EmptyNoProviderCall ==
    \A c \in Contexts :
        (Returned(c) /\ destLen[c] = 0 /\ RNG_SOURCE[c] # None) =>
            result[c] = Ok /\ Fills(log[c]) = <<>>

(* C6, amended: a request of length 0 with a resolved provider returns Ok  *)
(* and writes nothing; on the Browser path no chunk is iterated (no        *)
(* getRandomValues call), on the Node path randomFillSync is called once,  *)
(* with the empty buffer.                                                  *)
C6_EmptyRequest ==
    \A c \in Contexts :
        (Returned(c) /\ destLen[c] = 0 /\ RNG_SOURCE[c] # None) =>
            /\ result[c] = Ok
            /\ dest[c] = <<>>
            /\ RNG_SOURCE[c].kind = "Browser" =>
                   /\ Fills(log[c]) = <<>>
                   /\ ~HasOp(log[c], "new_with_length")
                   /\ ~HasOp(log[c], "copy_to")
            /\ RNG_SOURCE[c].kind = "Node" =>
                   Fills(log[c]) = <<Ev("random_fill_sync", RNG_SOURCE[c].obj, 0, 0)>>

(* Both variants have served a request of length 0. *)
C6_Witness ==
    \E c, b \in Contexts :
        /\ ReturnedOk(c) /\ destLen[c] = 0 /\ RNG_SOURCE[c].kind = "Node"
        /\ ReturnedOk(b) /\ destLen[b] = 0 /\ RNG_SOURCE[b].kind = "Browser"

(* C7: with `self` present and `crypto` defined, resolution takes `crypto`,*)
(* whether `msCrypto` is defined or not, and never `msCrypto`.              *)
C7_StandardPreferred ==
    \A c \in Contexts :
        (Probing(c) /\ Standard(host[c])) =>
            /\ HasEvent(log[c], "getRandomValues_fn", "crypto")
            /\ ~HasEvent(log[c], "getRandomValues_fn", "msCrypto")
            /\ ~HasEvent(log[c], "get_random_values", "msCrypto")
            /\ RNG_SOURCE[c] \in {None, Browser("crypto")}

(* Both are defined and usable, and `crypto` has been cached. *)
C7_Witness ==
    \E c \in Contexts :
        /\ Probing(c)
        /\ host[c].self /\ host[c].crypto = "full" /\ host[c].msCrypto = "full"
        /\ RNG_SOURCE[c] = Browser("crypto")

(* C8, as claimed: with `self` present, `crypto` undefined and `msCrypto`  *)
(* defined, resolution succeeds with Browser(msCrypto).                    *)
C8_LegacySucceeds ==
    \A c \in Contexts :
        (Probing(c) /\ Legacy(host[c])) =>
            RNG_SOURCE[c] = Browser("msCrypto") /\ result[c] \notin Errors

(* C8, amended: with `self` present, `crypto` undefined and `msCrypto`     *)
(* defined with its getRandomValues defined, resolution succeeds with      *)
(* Browser(msCrypto).                                                      *)
C8_LegacyFallback ==
    \A c \in Contexts :
        (Probing(c) /\ Legacy(host[c]) /\ host[c].msCrypto = "full") =>
            /\ RNG_SOURCE[c] = Browser("msCrypto")
            /\ result[c] \notin Errors
            /\ HasEvent(log[c], "getRandomValues_fn", "msCrypto")

(* Only `msCrypto` is there, and a call has been served by it. *)
C8_Witness ==
    \E c \in Contexts :
        /\ Probing(c) /\ ReturnedOk(c) /\ Legacy(host[c])
        /\ RNG_SOURCE[c] = Browser("msCrypto")
        /\ HasEvent(log[c], "get_random_values", "msCrypto")

(* C9: with `self` present and an object selected whose getRandomValues is *)
(* undefined, resolution fails with BINDGEN_GRV_UNDEF: neither with        *)
(* BINDGEN_CRYPTO_UNDEF nor with success.                                  *)
C9_GrvUndefined ==
    \A c \in Contexts :
        (Probing(c) /\ host[c].self
             /\ \/ host[c].crypto = "stub"
                \/ host[c].crypto = "undefined" /\ host[c].msCrypto = "stub") =>
            /\ Returned(c)
            /\ result[c] = BINDGEN_GRV_UNDEF
            /\ RNG_SOURCE[c] = None
            /\ Fills(log[c]) = <<>>

(* Resolution has failed on a legacy object without getRandomValues. *)
C9_Witness ==
    \E c \in Contexts :
        /\ Probing(c) /\ Returned(c) /\ result[c] = BINDGEN_GRV_UNDEF
        /\ host[c].crypto = "undefined" /\ host[c].msCrypto = "stub"

(* C10: a call returns BINDGEN_CRYPTO_UNDEF exactly when it found the      *)
(* cache empty in a host with `self` present and both `crypto` and         *)
(* `msCrypto` undefined.                                                   *)
C10_CryptoUndefinedExactly ==
    \A c \in Contexts :
        /\ Returned(c) =>
               (result[c] = BINDGEN_CRYPTO_UNDEF
                    <=> (entry[c] = None /\ Neither(host[c])))
        /\ ~Returned(c) => result[c] # BINDGEN_CRYPTO_UNDEF

(* A call has returned BINDGEN_CRYPTO_UNDEF. *)
C10_Witness ==
    \E c \in Contexts :
        Returned(c) /\ result[c] = BINDGEN_CRYPTO_UNDEF /\ Neither(host[c])

----------------------------------------------------------------------------
(* C11: when get_self fails (no `self`), resolution reads neither `crypto` *)
(* nor `msCrypto` nor getRandomValues, requires the module "crypto" and    *)
(* succeeds with a Node source; no error is returned on this path.         *)
C11_NodePath ==
    \A c \in Contexts :
        (Probing(c) /\ ~host[c].self) =>
            /\ ~HasOp(log[c], "crypto")
            /\ ~HasOp(log[c], "msCrypto")
            /\ ~HasOp(log[c], "getRandomValues_fn")
            /\ ~HasOp(log[c], "get_random_values")
            /\ HasEvent(log[c], "require", "crypto")
            /\ log[c][1].op = "get_self" /\ log[c][2].op = "require"
            /\ RNG_SOURCE[c] = Node
            /\ result[c] \notin Errors

(* A call in a host without `self` has resolved to Node and returned Ok. *)
C11_Witness ==
    \E c \in Contexts :
        /\ Probing(c) /\ ReturnedOk(c) /\ ~host[c].self
        /\ RNG_SOURCE[c] = Node /\ initRuns[c] = 1

(* C12: no provider fill is made while the context's cache is empty; once  *)
(* the cache holds a handle it never changes and never becomes empty       *)
(* again, and every fill of the context goes to that handle, also after    *)
(* the host has changed.                                                   *)
C12_HandleImmutable ==
    /\ [](\A c \in Contexts : \A k \in DOMAIN log[c] :
            IsFill(log[c][k]) =>
                /\ RNG_SOURCE[c] # None
                /\ log[c][k].obj = RNG_SOURCE[c].obj
                /\ (log[c][k].op = "random_fill_sync") = (RNG_SOURCE[c] = Node))
    /\ [][\A c \in Contexts :
            /\ RNG_SOURCE[c] # None => RNG_SOURCE'[c] = RNG_SOURCE[c]
            /\ Len(Fills(log'[c])) > Len(Fills(log[c])) => RNG_SOURCE[c] # None]_vars

(* A cached Browser handle fills a buffer after `self` has gone away. *)
C12_Witness ==
    \E c \in Contexts :
        /\ pc[c] # "idle" /\ entry[c] = Browser("msCrypto")
        /\ ~host[c].self
        /\ HasEvent(log[c], "get_random_values", "msCrypto")

(* C13: every context has its own cache: a step changes the cache and the *)
(* probe count of at most the context that begins a call in it, the cached *)
(* source is the one the context's own host gives, and the first call of a *)
(* context runs the probe whatever the other contexts have resolved.       *)
C13_PerContextCache ==
    [][\A c \in Contexts :
          /\ (RNG_SOURCE'[c] # RNG_SOURCE[c] \/ initRuns'[c] # initRuns[c]) =>
                 /\ pc[c] = "idle" /\ pc'[c] # "idle"
                 /\ initRuns'[c] = initRuns[c] + 1
                 /\ \A d \in Contexts \ {c} :
                        /\ RNG_SOURCE'[d] = RNG_SOURCE[d]
                        /\ initRuns'[d] = initRuns[d]
                        /\ pc'[d] = pc[d]
                 /\ RNG_SOURCE'[c] # None =>
                        (RNG_SOURCE'[c] = Node) = ~host[c].self
          /\ (pc[c] = "idle" /\ pc'[c] # "idle" /\ initRuns[c] = 0) =>
                 /\ initRuns'[c] = 1
                 /\ HasOp(log'[c], "get_self")]_vars

(* One context has failed to resolve while the other, resolved to a        *)
(* Browser source by a probe of its own, is in the middle of a call.       *)
C13_Witness ==
    \E c, d \in Contexts :
        /\ c # d
        /\ Returned(d) /\ result[d] \in Errors /\ RNG_SOURCE[d] = None
        /\ pc[c] = "fill" /\ RNG_SOURCE[c].kind = "Browser"
        /\ initRuns[c] = 1 /\ initRuns[d] = 1

(* C14: on the Node path every call makes exactly one random_fill_sync     *)
(* call, on the whole of dest, whatever its length (also above 65536), and *)
(* nothing is chunked.                                                     *)
C14_NodeSingleFill ==
    \A c \in Contexts :
        (Returned(c) /\ RNG_SOURCE[c] = Node) =>
            /\ result[c] = Ok
            /\ Fills(log[c]) = <<Ev("random_fill_sync", Node.obj, 0, destLen[c])>>
            /\ Stores(log[c]) = Fills(log[c])
            /\ ~HasOp(log[c], "new_with_length")
            /\ dest[c] = IF destLen[c] = 0 THEN <<>>
                         ELSE <<Run(0, destLen[c], 1, 0)>>

(* A cached Node source has served 65537 bytes. *)
C14_Witness ==
    \E c \in Contexts :
        /\ ReturnedOk(c) /\ entry[c] = Node /\ destLen[c] = 65537
        /\ Len(Fills(log[c])) = 1

(* The foreign calls of the loop of lines 51-55 in a log, in order. *)
LoopOps(l) ==
    SelectSeq(l, LAMBDA e :
        e.op \in {"new_with_length", "get_random_values", "copy_to"})

(* Byte i of buffer d: the provider call it comes from (0: the caller) and *)
(* its index in that call's result (in the caller's buffer).               *)
ByteAt(d, i) ==
    LET r == d[CHOOSE k \in DOMAIN d : d[k].lo <= i /\ i < d[k].hi]
    IN  <<r.call, r.src + (i - r.lo)>>

(* C15: on the Browser path the chunks are taken in increasing offset      *)
(* order, none skipped; the result of a provider call is copied to its     *)
(* chunk's offset before the next provider call is made, and byte k of the *)
(* j-th result (from 0) is byte j*65536 + k of dest.  Stated of every      *)
(* state of a call, so also between two chunks: n chunks are done, the     *)
(* rest of dest is still the caller's.                                     *)
C15_ChunkOrder ==
    \A c \in Contexts :
        (pc[c] # "idle" /\ RNG_SOURCE[c].kind = "Browser") =>
            LET L == destLen[c]
                ops == LoopOps(log[c])
                n == Len(ops) \div 3
                end(j) == Min((j + 1) * 65536, L)
            IN  /\ Len(ops) = 3 * n
                /\ off[c] = Min(n * 65536, L)
                /\ \A j \in 0..(n - 1) :
                       /\ j * 65536 < L
                       /\ ops[3 * j + 1] =
                              Ev("new_with_length", "Uint8Array", 0, end(j) - j * 65536)
                       /\ ops[3 * j + 2] =
                              Ev("get_random_values", RNG_SOURCE[c].obj, 0,
                                 end(j) - j * 65536)
                       /\ ops[3 * j + 3] =
                              Ev("copy_to", "Uint8Array", j * 65536, end(j) - j * 65536)
                       /\ \A k \in {0, end(j) - j * 65536 - 1} :
                              ByteAt(dest[c], j * 65536 + k) = <<j + 1, k>>
                /\ \A i \in {off[c], L - 1} :
                       (off[c] <= i /\ i < L) => ByteAt(dest[c], i) = <<0, i>>
                /\ Len(dest[c]) = n + (IF off[c] < L THEN 1 ELSE 0)

(* Between the two chunks of a request of 65537 bytes: the first result is *)
(* in place, the second provider call has not been made.                   *)
C15_Witness ==
    \E c \in Contexts :
        /\ pc[c] = "fill" /\ RNG_SOURCE[c].kind = "Browser"
        /\ destLen[c] = 65537 /\ off[c] = 65536
        /\ Len(Fills(log[c])) = 1
        /\ ByteAt(dest[c], 65535) = <<1, 65535>>
        /\ ByteAt(dest[c], 65536) = <<0, 65536>>

(* C16: when getrandom_inner returns an error, the call has made no        *)
(* provider fill call, has loaded no other source, and every byte of dest  *)
(* is as the caller passed it.                                             *)
C16_ErrorWritesNothing ==
    \A c \in Contexts :
        (Returned(c) /\ result[c] \in Errors) =>
            /\ Fills(log[c]) = <<>>
            /\ Stores(log[c]) = <<>>
            /\ LoopOps(log[c]) = <<>>
            /\ ~HasOp(log[c], "require")
            /\ dest[c] = CallerBytes(destLen[c])
            /\ \A i \in {0, destLen[c] - 1} :
                   (0 <= i /\ i < destLen[c]) => ByteAt(dest[c], i) = <<0, i>>
            /\ entry[c] = None

(* A request of 65537 bytes has failed with BINDGEN_GRV_UNDEF. *)
C16_Witness ==
    \E c \in Contexts :
        /\ Returned(c) /\ result[c] = BINDGEN_GRV_UNDEF
        /\ destLen[c] = 65537 /\ dest[c] = <<Run(0, 65537, 0, 0)>>

(* C17: once a call of a context has returned Ok, every later call of the *)
(* context returns Ok, whatever the host has become; an error is returned  *)
(* only by a call that found the cache empty and leaves it empty.          *)
C17_OkForever ==
    /\ [](\A c \in Contexts :
            /\ ReturnedOk(c) => okInits[c] >= 1 /\ RNG_SOURCE[c] # None
            /\ (Returned(c) /\ okInits[c] >= 1) => result[c] = Ok
            /\ (pc[c] # "idle" /\ entry[c] # None) => result[c] \notin Errors
            /\ (Returned(c) /\ result[c] \in Errors) =>
                   entry[c] = None /\ RNG_SOURCE[c] = None /\ okInits[c] = 0)
    /\ [][\A c \in Contexts : okInits'[c] >= okInits[c]]_vars

(* A call has returned Ok from the cached `crypto` after `crypto` and      *)
(* `msCrypto` have both become undefined.                                  *)
C17_Witness ==
    \E c \in Contexts :
        /\ ReturnedOk(c) /\ entry[c] = Browser("crypto")
        /\ Neither(host[c])
        /\ destLen[c] > 0

(* C18: getRandomValues is tested on the selected object only: with        *)
(* `crypto` defined without getRandomValues, resolution fails with         *)
(* BINDGEN_GRV_UNDEF even when `msCrypto` is defined with a working        *)
(* getRandomValues, which is not looked at.                                *)
C18_NoFallbackAfterSelection ==
    \A c \in Contexts :
        (Probing(c) /\ host[c].self /\ host[c].crypto = "stub"
             /\ host[c].msCrypto = "full") =>
            /\ Returned(c) /\ result[c] = BINDGEN_GRV_UNDEF
            /\ RNG_SOURCE[c] = None
            /\ ~HasEvent(log[c], "getRandomValues_fn", "msCrypto")
            /\ ~HasEvent(log[c], "get_random_values", "msCrypto")
            /\ log[c][Len(log[c])] = Ev("getRandomValues_fn", "crypto", 0, 0)

(* Resolution has failed on `crypto` with a usable `msCrypto` beside it. *)
C18_Witness ==
    \E c \in Contexts :
        /\ Probing(c) /\ Returned(c) /\ result[c] = BINDGEN_GRV_UNDEF
        /\ host[c].crypto = "stub" /\ host[c].msCrypto = "full"

(* C19: every call ends, for every length and host: with an error when     *)
(* resolution fails, else with Ok after one provider call (Node) or        *)
(* ceil(L / 65536) provider calls (Browser); a call probes at most once    *)
(* and repeats nothing.  A call that has not returned from resolution is   *)
(* at "fill" until it returns, so it ends iff it is not at "fill" for      *)
(* ever.                                                                   *)
C19_Terminates ==
    /\ \A c \in Contexts : []<>(pc[c] # "fill")
    /\ [](\A c \in Contexts :
            LET N == IF RNG_SOURCE[c] = Node THEN 1
                     ELSE (destLen[c] + 65535) \div 65536
            IN  /\ Len(Fills(log[c])) <= N
                /\ Len(SelectSeq(log[c], LAMBDA e : e.op = "get_self")) <= 1
                /\ ReturnedOk(c) => Len(Fills(log[c])) = N
                /\ Returned(c) => result[c] \in Errors \cup {Ok}
                /\ (Returned(c) /\ result[c] \in Errors) =>
                       entry[c] = None /\ ~Functional(host[c]))

(* One call has ended with an error and another with Ok after two provider *)
(* calls.                                                                  *)
C19_Witness ==
    \E c, d \in Contexts :
        /\ Returned(c) /\ result[c] \in Errors
        /\ ReturnedOk(d) /\ Len(Fills(log[d])) = 2

====
